---- MODULE Spec2Model ----
(***************************************************************************)
(* Model of the snow-depth job of src/src/index.js (the S3 variant, lines  *)
(* 134-278): fetch the season's readings, munge them into one season       *)
(* record, read the historical CSV from S3, decide append / replace /      *)
(* nothing, and write the CSV back.                                        *)
(*                                                                         *)
(* JavaScript values are tagged records: a string, null or undefined.      *)
(* A JavaScript object is the sequence of its <<key, value>> properties in *)
(* insertion order (no key of this program is integer-like, so insertion   *)
(* order is the enumeration order).  CSV text is the sequence of its rows, *)
(* each row the sequence of its fields, header row first.                  *)
(***************************************************************************)
EXTENDS Integers, Sequences, FiniteSets, TLC

\* ------------------------------------------------------------- bounds
MaxRuns == 2
MaxTicks == 2
MaxLen == 3
MaxRows == 2

\* ------------------------------------------------------ JavaScript values
Null == [t |-> "null", s |-> ""]
Undefined == [t |-> "undefined", s |-> ""]
Str(s) == [t |-> "string", s |-> s]

\* ToNumber of the numeric strings of the feed: "" is 0, null is 0.
ToNumber(v) ==
  IF v.t # "string" \/ v.s = "" THEN 0
  ELSE CHOOSE n \in 0..99 : ToString(n) = v.s

\* parseInt(n, 10) of a date field: "09" is 9.
parseInt10(s) ==
  CHOOSE n \in 0..99 : s = ToString(n) \/ s = "0" \o ToString(n)

\* ------------------------------------------------------ JavaScript objects
Keys(obj) == [i \in 1..Len(obj) |-> obj[i][1]]

HasKey(obj, k) == \E i \in 1..Len(obj) : obj[i][1] = k

\* obj[k]: undefined when the property is absent.
Get(obj, k) ==
  IF HasKey(obj, k)
  THEN obj[CHOOSE i \in 1..Len(obj) : obj[i][1] = k][2]
  ELSE Undefined

\* { ...obj, [k]: v }: an existing key keeps its place, a new one goes last.
Spread(obj, k, v) ==
  IF HasKey(obj, k)
  THEN [i \in 1..Len(obj) |-> IF obj[i][1] = k THEN <<k, v>> ELSE obj[i]]
  ELSE Append(obj, <<k, v>>)

JSONValue(v) ==
  IF v.t = "string" THEN "\"" \o v.s \o "\"" ELSE "null"

RECURSIVE JSONProps(_)
JSONProps(obj) ==
  IF obj = <<>> THEN ""
  ELSE "\"" \o Head(obj)[1] \o "\":" \o JSONValue(Head(obj)[2])
       \o (IF Len(obj) > 1 THEN "," ELSE "") \o JSONProps(Tail(obj))

\* JSON.stringify of an object whose values are strings or null.
JSONstringify(obj) == "{" \o JSONProps(obj) \o "}"

\* ------------------------------------------------------------- munge
\* `${year}-${year + 1}`
Template(y) == ToString(y) \o "-" \o ToString(y + 1)

seasonLabel(m, y) ==
  IF m > 8 THEN Template(y) ELSE Template(y - 1)

\* The year put in the feed's URL.
requestYear(m, y) == IF m < 8 THEN y - 1 ELSE y

\* reading.Date.split("-").slice(1).map(n => parseInt(n, 10)).join("/")
\* A Date is kept as the tuple of its "-"-separated fields.
newDateLabel(date) ==
  ToString(parseInt10(date[2])) \o "/" \o ToString(parseInt10(date[3]))

isGarbageAtLeast10(depth, previousDepth) ==
  /\ depth.t = "string"
  /\ ToNumber(depth) = 0
  /\ (ToNumber(previousDepth) >= 10 \/ previousDepth = Null)

\* reading.Depth == 0 && (previousDepth > 10 || previousDepth === null)
isGarbage(depth, previousDepth) ==
  /\ depth.t = "string"
  /\ ToNumber(depth) = 0
  /\ (ToNumber(previousDepth) > 10 \/ previousDepth = Null)

\* One step of the reduce: the reading at `index` of sourceData (1-based),
\* whose Depth the callback overwrites in place.
sideEffect(sourceData, index) ==
  LET previousDepth == IF index > 1 THEN sourceData[index - 1].Depth ELSE Null
  IN  IF isGarbage(sourceData[index].Depth, previousDepth)
      THEN [sourceData EXCEPT ![index].Depth = Null]
      ELSE sourceData

RECURSIVE reduce(_, _, _)
reduce(sourceData, index, season) ==
  IF index > Len(sourceData) THEN season
  ELSE LET mutated == sideEffect(sourceData, index)
       IN  reduce(mutated, index + 1,
                  Spread(season, newDateLabel(mutated[index].Date),
                         mutated[index].Depth))

munge(sourceData, m, y) ==
  reduce(sourceData, 1, << <<"year", Str(seasonLabel(m, y))>> >>)

\* ------------------------------------------------------------- CSV
\* csv-stringify's text of a field: null and undefined are empty.
Field(v) == IF v.t = "string" THEN v.s ELSE ""

\* stringify(object, { header: true, columns: Object.keys(object[0]) })
stringifyObjectAsCsv(object) ==
  LET columns == Keys(object[1])
  IN  <<columns>> \o
      [r \in 1..Len(object) |->
         [c \in 1..Len(columns) |-> Field(Get(object[r], columns[c]))]]

\* parse(csvText, { columns: true }): every value is a string.
parse(csvText) ==
  IF csvText = <<>> THEN <<>>
  ELSE [r \in 1..(Len(csvText) - 1) |->
          [c \in 1..Len(csvText[1]) |->
             <<csvText[1][c], Str(csvText[r + 1][c])>>]]

\* ------------------------------------------------------------- main
alwaysNewYear(historicalLatestYear, currentSeasonDataYear) == TRUE

\* historicalLatestYear !== currentSeasonDataYear
isNewYear(historicalLatestYear, currentSeasonDataYear) ==
  historicalLatestYear # currentSeasonDataYear

\* JSON.stringify(historicalLatestData) !== JSON.stringify(currentSeasonData)
hasNewData(historicalLatestData, currentSeasonData) ==
  JSONstringify(historicalLatestData) # JSONstringify(currentSeasonData)

unshift(snowFallData, currentSeasonData) ==
  <<currentSeasonData>> \o snowFallData

\* snowFallData.push(currentSeasonData)
push(snowFallData, currentSeasonData) ==
  Append(snowFallData, currentSeasonData)

spliceFirst(snowFallData, currentSeasonData) ==
  <<currentSeasonData>> \o Tail(snowFallData)

\* snowFallData.splice(-1, 1, currentSeasonData)
spliceLast(snowFallData, currentSeasonData) ==
  Append(SubSeq(snowFallData, 1, Len(snowFallData) - 1), currentSeasonData)

\* historicalLatestData is undefined when readCSV gave no record, and
\* reading its .year (line 249) throws a TypeError: main rejects there.
emptyHistoryAppends(parsed, currentSeasonData) ==
  [pc |-> "done", error |-> "", decision |-> "append",
   snowFallData |-> Append(parsed, currentSeasonData), update |-> "stringify"]

emptyHistory(parsed, currentSeasonData) ==
  [pc |-> "failed", error |-> "TypeError", decision |-> "none",
   snowFallData |-> parsed, update |-> "none"]

\* Lines 246-274 of main, run without an await once readCSV has resolved
\* with `parsed`: the outcome is the decision, the array as mutated, and
\* whether updateData was called with it.
reconcile(parsed, currentSeasonData) ==
  IF parsed = <<>>
  THEN emptyHistory(parsed, currentSeasonData)
  ELSE LET historicalLatestData == parsed[Len(parsed)]
           historicalLatestYear == Get(historicalLatestData, "year")
           currentSeasonDataYear == Get(currentSeasonData, "year")
       IN  IF isNewYear(historicalLatestYear, currentSeasonDataYear)
           THEN [pc |-> "done", error |-> "", decision |-> "append",
                 snowFallData |-> push(parsed, currentSeasonData),
                 update |-> "stringify"]
           ELSE IF hasNewData(historicalLatestData, currentSeasonData)
           THEN [pc |-> "done", error |-> "", decision |-> "replace",
                 snowFallData |-> spliceLast(parsed, currentSeasonData),
                 update |-> "stringify"]
           ELSE [pc |-> "done", error |-> "", decision |-> "noop",
                 snowFallData |-> parsed, update |-> "none"]

\* ------------------------------------------------------------- state
VARIABLES
  now,        \* the calendar, in months: year * 12 + month index
  upstream,   \* the season's readings at the provider: <<month, day, depth>>
  store,      \* the S3 object snowDepth.csv
  loaded,     \* whether the module has been loaded
  month,      \* module constants, taken from the clock at load
  year,
  runs,       \* the invocations of main, oldest first, with their locals
  runsLeft,   \* invocations the scheduler will still make
  ticksLeft   \* calendar steps still to come

vars == <<now, upstream, store, loaded, month, year, runs, runsLeft, ticksLeft>>

\* The locals of an invocation of main that has just been called.
NewRun ==
  [pc |-> "getSnowfallData", month |-> month', year |-> year',
   requested |-> 0, sourceData |-> <<>>, currentSeasonData |-> <<>>,
   csvText |-> <<>>, parsed |-> <<>>, snowFallData |-> <<>>,
   decision |-> "none", error |-> "",
   update |-> "none", freshData |-> <<>>, data |-> <<>>]

Active == runs # <<>> /\ runs[Len(runs)].pc \in {"getSnowfallData", "readCSV"}

cur == Len(runs)

\* The feed's answer for a requested year: parsed rows with Date and Depth.
Response(requested) ==
  [i \in 1..Len(upstream) |->
     [Date |-> <<ToString(IF parseInt10(upstream[i][1]) >= 9
                          THEN requested ELSE requested + 1),
                 upstream[i][1], upstream[i][2]>>,
      Depth |-> Str(upstream[i][3])]]

\* ------------------------------------------------------------- inputs
\* August 2024, so that the calendar passes the September boundary.
Start == 2024 * 12 + 7

\* What the feed can hold for the season: readings of the first days of
\* September, in date order.
Feeds ==
  { << <<"09", "01", "0">> >>,
    << <<"09", "01", "5">> >>,
    << <<"09", "01", "5">>, <<"09", "02", "15">> >> }

\* What snowDepth.csv can hold at the start: one row per season, oldest
\* first, none later than the season of Start.
Stores ==
  { << <<"year", "9/1">> >>,
    << <<"year", "9/1">>, <<"2022-2023", "3">> >>,
    << <<"9/1", "year">>, <<"5", "2023-2024">> >>,
    << <<"year", "9/1">>, <<"2022-2023", "3">>, <<"2023-2024", "5">> >> }

\* The depth strings of the wide feeds: absent, zero, and both sides of 10.
Depths == {"", "0", "10", "11"}

Day(i) == <<"09", "0" \o ToString(i)>>

\* Every feed of n readings on the first n days of September.
FeedsOfLen(n) ==
  { [i \in 1..n |-> <<Day(i)[1], Day(i)[2], d[i]>>] : d \in [1..n -> Depths] }

AllFeeds(n) == UNION { FeedsOfLen(k) : k \in 0..n }

Headers ==
  { <<"year", "9/1">>, <<"9/1", "year">>, <<"year", "9/1", "9/2">> }

\* A row of the store under `header`: the label in the year column, `cells`
\* in the others.
Row(header, label, cells) ==
  [c \in 1..Len(header) |-> IF header[c] = "year" THEN label ELSE cells[c]]

\* Every store of n consecutive seasons ending with season `last`: the
\* earlier rows hold "3", the last row any depth strings.
StoresOf(header, n, last) ==
  { <<header>> \o
    [r \in 1..n |->
       Row(header, Template(last - (n - r)),
           IF r = n THEN cells ELSE [c \in 1..Len(header) |-> "3"])]
    : cells \in [1..Len(header) -> Depths] }

AllStores(n) ==
  UNION { StoresOf(h, k, last) :
            h \in Headers, k \in 0..n, last \in {2022, 2023, 2024} }

\* ------------------------------------------------------------- actions
\* A month passes, and the feed may hold other readings.
Tick ==
  /\ ticksLeft > 0
  /\ ticksLeft' = ticksLeft - 1
  /\ now' = now + 1
  /\ upstream' \in Feeds
  /\ UNCHANGED <<store, loaded, month, year, runs, runsLeft>>

\* The module is loaded: the date is captured and main() is called (line 276).
\* Invocations are made one at a time; the write an earlier one started may
\* still be under way.
Load ==
  /\ ~Active
  /\ runsLeft > 0
  /\ runsLeft' = runsLeft - 1
  /\ loaded' = TRUE
  /\ month' = now % 12
  /\ year' = now \div 12
  /\ runs' = Append(runs, NewRun)
  /\ UNCHANGED <<now, upstream, store, ticksLeft>>

\* exports.handler = main, invoked on the module already loaded.
Invoke ==
  /\ loaded
  /\ ~Active
  /\ runsLeft > 0
  /\ runsLeft' = runsLeft - 1
  /\ UNCHANGED <<month, year>>
  /\ runs' = Append(runs, NewRun)
  /\ UNCHANGED <<now, upstream, store, loaded, ticksLeft>>

\* await getSnowfallData() resolves and munge runs on its result.
GetSnowfallData ==
  /\ runs # <<>>
  /\ runs[cur].pc = "getSnowfallData"
  /\ LET requested == requestYear(month, year)
         parsedData == Response(requested)
     IN  runs' = [runs EXCEPT ![cur].pc = "readCSV",
                              ![cur].requested = requested,
                              ![cur].sourceData = parsedData,
                              ![cur].currentSeasonData =
                                 munge(parsedData, month, year)]
  /\ UNCHANGED <<now, upstream, store, loaded, month, year, runsLeft, ticksLeft>>

\* fetch or the feed's parse throws: main rejects.
GetSnowfallDataFails ==
  /\ runs # <<>>
  /\ runs[cur].pc = "getSnowfallData"
  /\ runs' = [runs EXCEPT ![cur].pc = "failed", ![cur].error = "FetchError"]
  /\ UNCHANGED <<now, upstream, store, loaded, month, year, runsLeft, ticksLeft>>

\* await readCSV() resolves; main runs to its end (lines 243-275), calling
\* updateData without awaiting it.
ReadCSV ==
  /\ runs # <<>>
  /\ runs[cur].pc = "readCSV"
  /\ LET parsed == parse(store)
         r == reconcile(parsed, runs[cur].currentSeasonData)
     IN  runs' = [runs EXCEPT ![cur].pc = r.pc,
                              ![cur].error = r.error,
                              ![cur].csvText = store,
                              ![cur].parsed = parsed,
                              ![cur].snowFallData = r.snowFallData,
                              ![cur].decision = r.decision,
                              ![cur].update = r.update,
                              ![cur].freshData =
                                 IF r.update = "none" THEN <<>>
                                 ELSE r.snowFallData]
  /\ UNCHANGED <<now, upstream, store, loaded, month, year, runsLeft, ticksLeft>>

\* getObject or the CSV parse fails: main rejects.
ReadCSVFails ==
  /\ runs # <<>>
  /\ runs[cur].pc = "readCSV"
  /\ runs' = [runs EXCEPT ![cur].pc = "failed", ![cur].error = "StoreReadError"]
  /\ UNCHANGED <<now, upstream, store, loaded, month, year, runsLeft, ticksLeft>>

\* updateData of run i: stringify calls back, putObject is issued.
Stringified(i) ==
  /\ runs[i].update = "stringify"
  /\ runs' = [runs EXCEPT ![i].update = "put",
                          ![i].data = stringifyObjectAsCsv(runs[i].freshData)]
  /\ UNCHANGED <<now, upstream, store, loaded, month, year, runsLeft, ticksLeft>>

\* stringify calls back with an error: updateData rejects, nobody listens.
StringifyFails(i) ==
  /\ runs[i].update = "stringify"
  /\ runs' = [runs EXCEPT ![i].update = "rejected"]
  /\ UNCHANGED <<now, upstream, store, loaded, month, year, runsLeft, ticksLeft>>

\* putObject of run i succeeds: the object is replaced.
PutObject(i) ==
  /\ runs[i].update = "put"
  /\ store' = runs[i].data
  /\ runs' = [runs EXCEPT ![i].update = "put_ok"]
  /\ UNCHANGED <<now, upstream, loaded, month, year, runsLeft, ticksLeft>>

\* putObject of run i fails: console.log gets the error.
PutObjectFails(i) ==
  /\ runs[i].update = "put"
  /\ runs' = [runs EXCEPT ![i].update = "put_err"]
  /\ UNCHANGED <<now, upstream, store, loaded, month, year, runsLeft, ticksLeft>>

WriteSteps ==
  \E i \in 1..Len(runs) :
    \/ Stringified(i)
    \/ StringifyFails(i)
    \/ PutObject(i)
    \/ PutObjectFails(i)

RunSteps ==
  \/ Load
  \/ GetSnowfallData
  \/ GetSnowfallDataFails
  \/ ReadCSV
  \/ ReadCSVFails
  \/ WriteSteps

Next == Tick \/ Invoke \/ RunSteps

Fresh ==
  /\ loaded = FALSE
  /\ month = 0
  /\ year = 0
  /\ runs = <<>>

Init ==
  /\ Fresh
  /\ now = Start
  /\ upstream \in Feeds
  /\ store \in Stores
  /\ runsLeft = MaxRuns
  /\ ticksLeft = MaxTicks

Spec == Init /\ [][Next]_vars

\* One run of the job on any feed of up to MaxLen readings, in any month.
InitMunge ==
  /\ Fresh
  /\ now \in (2024 * 12)..(2024 * 12 + 11)
  /\ upstream \in AllFeeds(MaxLen)
  /\ store = << <<"year", "9/1">>, <<"2023-2024", "5">> >>
  /\ runsLeft = 1
  /\ ticksLeft = 0

SpecMunge == InitMunge /\ [][RunSteps]_vars

\* One run of the job on any store of up to MaxRows seasons, around the
\* September boundary.
InitReconcile ==
  /\ Fresh
  /\ now \in Start..(Start + 2)
  /\ upstream \in AllFeeds(2)
  /\ store \in AllStores(MaxRows)
  /\ runsLeft = 1
  /\ ticksLeft = 0

SpecReconcile == InitReconcile /\ [][RunSteps]_vars

\* ------------------------------------------------------------- claims
Last(seq) == seq[Len(seq)]

\* The properties of an object, without their order.
Props(obj) == { obj[i] : i \in 1..Len(obj) }

\* Same keys, same value at every key (null differs from every string).
StructEq(a, b) == Props(a) = Props(b)

StructEqTable(t, u) ==
  /\ Len(t) = Len(u)
  /\ \A r \in 1..Len(t) : StructEq(t[r], u[r])

KeySet(obj) == { obj[i][1] : i \in 1..Len(obj) }

\* The first year of a season label "Y-(Y+1)".
LabelYear(label) == CHOOSE y \in 2020..2030 : Template(y) = label

\* Run r has read a non-empty table T = r.parsed and holds C.
Reconciled(r) == r.parsed # <<>>

SameLabel(r) ==
  Get(Last(r.parsed), "year") = Get(r.currentSeasonData, "year")

\* C1: whenever a run has read a non-empty table T and its current record C
\* carries another season label than T's last element, the run decides
\* Append and hands the writer exactly T followed by C.
C1_Append ==
  \A i \in 1..Len(runs) :
    LET r == runs[i]
    IN  (Reconciled(r) /\ ~SameLabel(r)) =>
          /\ r.pc = "done"
          /\ r.decision = "append"
          /\ r.update # "none"
          /\ Len(r.freshData) = Len(r.parsed) + 1
          /\ Last(r.freshData) = r.currentSeasonData
          /\ SubSeq(r.freshData, 1, Len(r.parsed)) = r.parsed

C1_Witness ==
  \E i \in 1..Len(runs) :
    /\ Reconciled(runs[i])
    /\ ~SameLabel(runs[i])
    /\ Len(runs[i].parsed) >= 2
    /\ Len(runs[i].currentSeasonData) >= 2
    /\ runs[i].update = "put"

\* C2: whenever a run has read a non-empty table T and its current record C
\* carries the label of T's last element but differs from it in content,
\* the run decides Replace and hands the writer a table as long as T, ending
\* with C, whose earlier elements are those of T.
C2_Replace ==
  \A i \in 1..Len(runs) :
    LET r == runs[i]
    IN  (Reconciled(r) /\ SameLabel(r)
         /\ ~StructEq(Last(r.parsed), r.currentSeasonData)) =>
          /\ r.pc = "done"
          /\ r.decision = "replace"
          /\ r.update # "none"
          /\ Len(r.freshData) = Len(r.parsed)
          /\ Last(r.freshData) = r.currentSeasonData
          /\ \A k \in 1..(Len(r.parsed) - 1) : r.freshData[k] = r.parsed[k]

C2_Witness ==
  \E i \in 1..Len(runs) :
    /\ Reconciled(runs[i])
    /\ SameLabel(runs[i])
    /\ ~StructEq(Last(runs[i].parsed), runs[i].currentSeasonData)
    /\ Len(runs[i].parsed) >= 2
    /\ runs[i].update = "put"

\* C3: a run that has read a non-empty table leaves it unchanged (decides
\* no-op, starts no write) exactly when the table's last element and the
\* current record have the same label and are structurally equal, whatever
\* the order of their keys.
C3_NoopIffStructurallyEqual ==
  \A i \in 1..Len(runs) :
    LET r == runs[i]
    IN  Reconciled(r) =>
          ((r.decision = "noop" /\ r.update = "none")
             <=> (SameLabel(r) /\ StructEq(Last(r.parsed), r.currentSeasonData)))

\* The value munge stored for reading k of the feed's answer.
Stored(r, k) == Get(r.currentSeasonData, newDateLabel(r.sourceData[k].Date))

Munged(r) == r.currentSeasonData # <<>>

StoredLabels ==
  LET table == parse(store)
  IN  [r \in 1..Len(table) |-> Get(table[r], "year").s]

C6_WriteErrorsPropagate ==
  \A i \in 1..Len(runs) :
    LET r == runs[i]
    IN  /\ (r.pc = "done" /\ r.decision \in {"append", "replace"})
             => r.update = "put_ok"
        /\ r.update \in {"rejected", "put_err"} => r.pc = "failed"

\* Run r has read the store and found no record in it.
ReadEmpty(r) == r.csvText # <<>> /\ r.parsed = <<>>

C8_RoundTrip ==
  \A i \in 1..Len(runs) :
    LET r == runs[i]
    IN  (/\ r.data # <<>>
         /\ \A a, b \in 1..Len(r.freshData) :
              KeySet(r.freshData[a]) = KeySet(r.freshData[b]))
          => StructEqTable(parse(r.data), r.freshData)

\* C9: the year a run requests from the feed is the first year of the label
\* munge gives its record.
C9_RequestedYearIsLabelYear ==
  \A i \in 1..Len(runs) :
    LET r == runs[i]
    IN  Munged(r) =>
          r.requested = LabelYear(Get(r.currentSeasonData, "year").s)

\* C10: when a run decided Append or Replace and its write succeeded, the
\* next run, made on the same date with the same readings and reading back
\* what was written, decides no-op and starts no write.
C10_SecondRunIsNoop ==
  \A i \in 1..(Len(runs) - 1) :
    LET r == runs[i]
        n == runs[i + 1]
    IN  (/\ r.decision \in {"append", "replace"}
         /\ r.update = "put_ok"
         /\ n.pc = "done"
         /\ n.month = r.month
         /\ n.year = r.year
         /\ n.sourceData = r.sourceData
         /\ n.csvText = r.data)
          => (n.decision = "noop" /\ n.update = "none")

====
